---------------------------- MODULE Spec2Model ----------------------------
(***************************************************************************)
(* Meow Parking Jam: the level generator, the shuffle, flip-all, move       *)
(* resolution, the hint scan and the React driver (App.tsx) that owns the   *)
(* piece list.                                                              *)
(*                                                                          *)
(* Numbers.  A cat's x and y are JavaScript numbers.  They are whole cells  *)
(* while the cat is on the board, but an exit moves the head by             *)
(* gridSize * 2.5 cells, which is a half-integer on the 9x9 and 11x11       *)
(* boards.  The fields x and y of a cat are therefore kept in HALF CELLS    *)
(* (fixed point, one binary digit): Num(n) is the whole number n, and       *)
(* Round is Math.round on that representation.  gridSize, steps and deltas  *)
(* stay in whole cells.                                                     *)
(*                                                                          *)
(* Randomness.  Every Math.random() call is an input.  The empty-slot draw  *)
(* ranges over all of its nine outcomes; the other draws of one call of     *)
(* generateLevel or shuffleCats are read from a stream Rnd(seed, k), with   *)
(* the seed drawn from Seeds.                                               *)
(***************************************************************************)
EXTENDS Integers, Sequences, FiniteSets, TLC

\* ------------------------------------------------------------------ bounds

\* Number of random streams (seeds 1..MaxSeed) a generation or shuffle draws from.
MaxSeed == 1

\* Spec explores the handlers while interactionTrigger is at most this.
MaxInteractions == 3

\* Spec explores the bomb interval for this many firings after a level starts.
MaxTicks == 1

\* The seconds before a bomb's expiry in which the late player clicks.
LastSeconds == 1

\* The pieces left on the board when the hint-following player turns free.
EndgamePieces == 2

\* ------------------------------------------------------- program constants

BOMB_TIME_SECONDS == 120

\* CAT_SKINS.length
NumSkins == 8

\* The delay of the hint timeout (10000 ms), in seconds.
HintDelaySeconds == 10

maxEmpty == 10

minEmpty == 2

\* The value of `timer` on a NORMAL cat (JavaScript undefined).
Undefined == -1

Seeds == 1..MaxSeed

\* ------------------------------------------------------------- fixed point

\* The number n (whole cells) as stored in a cat's x / y.
Num(n) == 2 * n

\* Math.round on a stored coordinate: nearest whole number, halves go up.
Round(v) == 2 * ((v + 1) \div 2)

\* gridSize * 2.5, as a stored coordinate.
ExitDistance(size) == 5 * size

\* The one element of a one-element set.  {F(v) : v \in {e}} evaluates e once,
\* before F: loops below are unrolled that way, iteration after iteration.
Only(S) == CHOOSE v \in S : TRUE

\* ---------------------------------------------------------------- geometry

Directions == <<"UP", "DOWN", "LEFT", "RIGHT">>

\* getDelta, in whole cells.
getDelta(dir) ==
    CASE dir = "UP" -> [dx |-> 0, dy |-> -1]
      [] dir = "DOWN" -> [dx |-> 0, dy |-> 1]
      [] dir = "LEFT" -> [dx |-> -1, dy |-> 0]
      [] dir = "RIGHT" -> [dx |-> 1, dy |-> 0]

getOppositeDir(dir) ==
    CASE dir = "UP" -> "DOWN"
      [] dir = "DOWN" -> "UP"
      [] dir = "LEFT" -> "RIGHT"
      [] dir = "RIGHT" -> "LEFT"

\* isValid of the generator: whole-cell coordinates inside the grid.
isValid(x, y, size) == x >= 0 /\ x < size /\ y >= 0 /\ y < size

\* ------------------------------------------------------------ level config

\* A faulty configuration: the thresholds of level 5 are taken at level 4.
getLevelConfigEarly(lvl) ==
    [size |-> IF lvl >= 20 THEN 11 ELSE IF lvl >= 10 THEN 10 ELSE IF lvl >= 4 THEN 9 ELSE 8,
     skinCount |-> IF NumSkins < 2 + ((lvl - 1) \div 3) THEN NumSkins
                   ELSE 2 + ((lvl - 1) \div 3),
     bombChance |-> IF lvl >= 30 THEN 15 ELSE IF lvl >= 15 THEN 10
                    ELSE IF lvl >= 4 THEN 5 ELSE 0,
     unlockMsg |-> IF lvl = 1 THEN "Tap cats to clear!"
                   ELSE IF lvl = 4 THEN "Bomb Cats & Bigger Grid!" ELSE "undefined"]

getLevelConfig(lvl) ==
    LET size == IF lvl >= 20 THEN 11
                ELSE IF lvl >= 10 THEN 10
                ELSE IF lvl >= 5 THEN 9
                ELSE 8
        raw == 2 + ((lvl - 1) \div 3)
        skinCount == IF NumSkins < raw THEN NumSkins ELSE raw
        \* bombChance in percent
        bombChance == IF lvl >= 30 THEN 15
                      ELSE IF lvl >= 15 THEN 10
                      ELSE IF lvl >= 5 THEN 5
                      ELSE 0
        unlockMsg == IF lvl = 1 THEN "Tap cats to clear!"
                     ELSE IF lvl = 5 THEN "Bomb Cats & Bigger Grid!"
                     ELSE "undefined"
    IN  [size |-> size, skinCount |-> skinCount, bombChance |-> bombChance,
         unlockMsg |-> unlockMsg]

\* ------------------------------------------------------------- random draws

\* The k-th draw of random stream `seed`, a number in 0..999 standing for
\* Math.random() in thousandths (a small hash of seed and k).
Rnd(seed, k) ==
    LET h1 == (seed * 7919 + k * 9973 + 1) % 32749
        h2 == (h1 * h1 + h1 * 7 + 3) % 32749
        h3 == (h2 * h2 + 11) % 32749
    IN  h3 % 1000

\* Math.floor(Math.random() * n)
RandomInt(seed, k, n) == (Rnd(seed, k) * n) \div 1000

\* Math.random() < percent / 100
RandomBelow(seed, k, percent) == Rnd(seed, k) < percent * 10

\* ---------------------------------------------------------------- cells

\* allCells of generateLevel and shuffleCats: row-major, y outer, x inner.
\* Cell number c (0-based) is x = c % gridSize, y = c \div gridSize.
CellX(c, size) == c % size

CellY(c, size) == c \div size

\* allCells.sort(() => Math.random() - 0.5): the comparator answers at random,
\* so the result is some permutation of the array; here the one that orders
\* the cells by a random key each (equal keys by cell number).  `base` is the
\* first draw of the stream the keys are read from.
PreShuffleKey(c, seed, base) == Rnd(seed, base + c) * 128 + c

RandomOrder(cells, seed, base) ==
    SortSeq(cells, LAMBDA a, b : PreShuffleKey(a, seed, base) < PreShuffleKey(b, seed, base))

\* Four times the squared distance of cell c from (gridSize/2, gridSize/2);
\* Math.hypot orders cells exactly as this does.
Dist2(c, size) ==
    (2 * CellX(c, size) - size) * (2 * CellX(c, size) - size)
    + (2 * CellY(c, size) - size) * (2 * CellY(c, size) - size)

\* allCells.sort((a, b) => distA - distB): a stable sort (as SortSeq is), so
\* cells at the same distance keep the order the first sort left them in.
SortByDistance(cells, size) ==
    SortSeq(cells, LAMBDA a, b : Dist2(a, size) < Dist2(b, size))

\* allCells in row-major order: cell numbers 0 .. gridSize*gridSize - 1.
AllCells(size) == [i \in 1..(size * size) |-> i - 1]

GridSizes == {8, 9, 10, 11}

\* allCells after both sorts of generateLevel, per grid size and seed.
CenterOutCells ==
    [g \in GridSizes, s \in Seeds |-> SortByDistance(RandomOrder(AllCells(g), s, 0), g)]

\* allCells after the one sort of shuffleCats, per grid size and seed.
ShuffledCells ==
    [g \in GridSizes, s \in Seeds |-> RandomOrder(AllCells(g), s, 1000)]

Swap(seq, i, j) == [seq EXCEPT ![i] = seq[j], ![j] = seq[i]]

\* ------------------------------------------------------------ generateLevel

\* The Fisher-Yates loop of generateLevel (i = 3, 2, 1; j = floor(random*(i+1)))
\* on the 0-based array [UP, DOWN, LEFT, RIGHT]; draws base+1 .. base+3.
ShuffleDirections(seed, base) ==
    LET d3 == Swap(Directions, 4, RandomInt(seed, base + 1, 4) + 1)
        d2 == Swap(d3, 3, RandomInt(seed, base + 2, 3) + 1)
        d1 == Swap(d2, 2, RandomInt(seed, base + 3, 2) + 1)
    IN  d1

\* First draw of the stream used when the generator visits the i-th cell.
GenDraw(i) == 200 + 8 * i

\* genId(): a random string, taken to differ from every other id of the same
\* level; the n-th call of one generateLevel call returns the numeral of n.
genId(n) == ToString(n)

\* A faulty target: the empty slots are not taken off, the grid is to be filled.
targetCatCountFull(size, emptySlots) == (size * size) \div 2

targetCatCount(size, emptySlots) == (size * size - emptySlots) \div 2

\* A faulty cat, the original logic of the comment: the head on the visited
\* cell, moving into the centre.
NewCatInward(id, tailX, tailY, dir, isBomb, skin) ==
    [id |-> id, x |-> Num(tailX + getDelta(dir).dx), y |-> Num(tailY + getDelta(dir).dy),
     direction |-> dir,
     type |-> IF isBomb THEN "BOMB" ELSE "NORMAL",
     timer |-> IF isBomb THEN BOMB_TIME_SECONDS ELSE Undefined,
     color |-> skin, isExited |-> FALSE, isMoving |-> FALSE]

\* A new cat as pushed by generateLevel: the head is the tail candidate, the
\* direction the opposite of the direction tested.
NewCat(id, tailX, tailY, dir, isBomb, skin) ==
    [id |-> id, x |-> Num(tailX), y |-> Num(tailY),
     direction |-> getOppositeDir(dir),
     type |-> IF isBomb THEN "BOMB" ELSE "NORMAL",
     timer |-> IF isBomb THEN BOMB_TIME_SECONDS ELSE Undefined,
     color |-> skin, isExited |-> FALSE, isMoving |-> FALSE]

\* A faulty inner loop: it gives up after the first direction tried.
FirstFreeDirOnce(dirs, k, cx, cy, size, occupied) ==
    IF k > Len(dirs) THEN "none"
    ELSE LET delta == getDelta(dirs[k])
             tailX == cx - delta.dx
             tailY == cy - delta.dy
         IN  IF isValid(tailX, tailY, size) /\ <<tailX, tailY>> \notin occupied
             THEN dirs[k]
             ELSE "none"

\* The directions (in the shuffled order dirs) from index k on whose tail cell
\* is valid and unoccupied: the first one is the one the inner loop accepts.
RECURSIVE FirstFreeDir(_, _, _, _, _, _)
FirstFreeDir(dirs, k, cx, cy, size, occupied) ==
    IF k > Len(dirs) THEN "none"
    ELSE LET delta == getDelta(dirs[k])
             tailX == cx - delta.dx
             tailY == cy - delta.dy
         IN  IF isValid(tailX, tailY, size) /\ <<tailX, tailY>> \notin occupied
             THEN dirs[k]
             ELSE FirstFreeDir(dirs, k + 1, cx, cy, size, occupied)

\* One iteration of the placement loop (2. Place cats), for the i-th cell of
\* `cells`; st holds the loop's variables cats and occupied.  The `break` at
\* the target count leaves the remaining iterations without effect.
PlaceCell(cells, i, st, config, target, seed) ==
    LET size == config.size
        cx == CellX(cells[i], size)
        cy == CellY(cells[i], size)
        dirs == ShuffleDirections(seed, GenDraw(i))
        dir == FirstFreeDir(dirs, 1, cx, cy, size, st.occupied)
        delta == getDelta(dir)
        tailX == cx - delta.dx
        tailY == cy - delta.dy
        isBomb == RandomBelow(seed, GenDraw(i) + 4, config.bombChance)
        skin == RandomInt(seed, GenDraw(i) + 5, config.skinCount)
    IN  IF Len(st.cats) >= target THEN st
        ELSE IF <<cx, cy>> \in st.occupied THEN st
        ELSE IF dir = "none" THEN st
        ELSE [cats |-> Append(st.cats,
                              NewCat(genId(Len(st.cats) + 1), tailX, tailY, dir,
                                     isBomb, skin)),
              occupied |-> st.occupied \cup {<<cx, cy>>, <<tailX, tailY>>}]

\* The iterations lo..hi of the placement loop, in order.
RECURSIVE PlaceCats(_, _, _, _, _, _, _)
PlaceCats(cells, lo, hi, st, config, target, seed) ==
    IF lo > hi THEN st
    ELSE IF lo = hi THEN PlaceCell(cells, lo, st, config, target, seed)
    ELSE LET mid == (lo + hi) \div 2
         IN  Only({PlaceCats(cells, mid + 1, hi, first, config, target, seed) :
                      first \in {PlaceCats(cells, lo, mid, st, config, target, seed)}})

\* The placement loop with a record of the cells it leaves: tr.st holds the
\* loop's variables, tr.skipped the cells visited below the target count, found
\* unoccupied, for which no direction had a valid unoccupied tail.
PlaceCellTrace(cells, i, tr, config, target, seed) ==
    LET size == config.size
        cx == CellX(cells[i], size)
        cy == CellY(cells[i], size)
        dirs == ShuffleDirections(seed, GenDraw(i))
        left == /\ Len(tr.st.cats) < target
                /\ <<cx, cy>> \notin tr.st.occupied
                /\ FirstFreeDir(dirs, 1, cx, cy, size, tr.st.occupied) = "none"
    IN  [st |-> PlaceCell(cells, i, tr.st, config, target, seed),
         skipped |-> IF left THEN tr.skipped \cup {<<cx, cy>>} ELSE tr.skipped]

RECURSIVE PlaceCatsTrace(_, _, _, _, _, _, _)
PlaceCatsTrace(cells, lo, hi, tr, config, target, seed) ==
    IF lo > hi THEN tr
    ELSE IF lo = hi THEN PlaceCellTrace(cells, lo, tr, config, target, seed)
    ELSE LET mid == (lo + hi) \div 2
         IN  Only({PlaceCatsTrace(cells, mid + 1, hi, first, config, target, seed) :
                      first \in {PlaceCatsTrace(cells, lo, mid, tr, config, target, seed)}})

\* The run of generateLevel's placement loop: the cats and the occupied set
\* it ends with, and the cells it skipped.
GenerationTrace(levelNumber, emptySlots, seed) ==
    LET config == getLevelConfig(levelNumber)
        cells == CenterOutCells[config.size, seed]
    IN  PlaceCatsTrace(cells, 1, Len(cells),
                       [st |-> [cats |-> << >>, occupied |-> {}], skipped |-> {}],
                       config, targetCatCount(config.size, emptySlots), seed)

\* The comparator (a.y - b.y) || (a.x - b.x) is negative: a sorts before b.
RowMajorBefore(a, b) == a.y < b.y \/ (a.y = b.y /\ a.x < b.x)

\* Array.prototype.sort with that comparator: a stable sort, as SortSeq is.
SortRowMajor(allCats) == SortSeq(allCats, RowMajorBefore)

\* A faulty generator: every piece is turned round on its two cells and moves
\* into the centre.
generateLevelInward(levelNumber, emptySlots, seed) ==
    LET config == getLevelConfig(levelNumber)
        size == config.size
        target == targetCatCount(size, emptySlots)
        cells == CenterOutCells[size, seed]
        placed == PlaceCats(cells, 1, Len(cells), [cats |-> << >>, occupied |-> {}],
                            config, target, seed)
        turned == [k \in 1..Len(placed.cats) |->
                      [placed.cats[k] EXCEPT
                          !.x = placed.cats[k].x - Num(getDelta(placed.cats[k].direction).dx),
                          !.y = placed.cats[k].y - Num(getDelta(placed.cats[k].direction).dy),
                          !.direction = getOppositeDir(placed.cats[k].direction)]]
    IN  [cats |-> SortRowMajor(turned), gridSize |-> size,
         level |-> levelNumber, unlockedMessage |-> config.unlockMsg]

\* generateLevel(levelNumber), with its random inputs: the empty-slot draw and
\* the stream of the remaining draws.
generateLevel(levelNumber, emptySlots, seed) ==
    LET config == getLevelConfig(levelNumber)
        size == config.size
        target == targetCatCount(size, emptySlots)
        cells == CenterOutCells[size, seed]
        placed == PlaceCats(cells, 1, Len(cells), [cats |-> << >>, occupied |-> {}],
                            config, target, seed)
    IN  [cats |-> SortRowMajor(placed.cats), gridSize |-> size,
         level |-> levelNumber, unlockedMessage |-> config.unlockMsg]

\* The outcomes of Math.floor(Math.random() * (maxEmpty - minEmpty + 1)) + minEmpty.
EmptySlotDraws == minEmpty..maxEmpty

\* ------------------------------------------------------------- occupancy

\* The tail of a cat, as the driver computes it: (c.x - dx, c.y - dy).
TailX(c) == c.x - Num(getDelta(c.direction).dx)

TailY(c) == c.y - Num(getDelta(c.direction).dy)

\* ------------------------------------------------------------ shuffleCats

\* directions.sort(() => Math.random() - 0.5): the comparator answers at
\* random, so the result is some permutation of [UP, DOWN, LEFT, RIGHT]; here
\* the one three draws (base+1 .. base+3) select by successive swaps.
RandomDirections(seed, base) ==
    LET d3 == Swap(Directions, 4, RandomInt(seed, base + 1, 4) + 1)
        d2 == Swap(d3, 3, RandomInt(seed, base + 2, 3) + 1)
    IN  Swap(d2, 2, RandomInt(seed, base + 3, 2) + 1)

\* First draw of the stream used for the directions tried when cat number j
\* (of the active cats) looks at the i-th cell.
ShuffleDraw(j, i) == 400 + 8 * (128 * j + i)

\* shuffleCats' own isValid
isValidCell(x, y, size) == x >= 0 /\ x < size /\ y >= 0 /\ y < size

\* Whether direction dir gives the cell (cx, cy) a valid, unoccupied tail.
TailFree(cx, cy, dir, size, occupied) ==
    LET delta == getDelta(dir)
    IN  /\ isValidCell(cx - delta.dx, cy - delta.dy, size)
        /\ <<cx - delta.dx, cy - delta.dy>> \notin occupied

\* A faulty test: of the four directions only UP is tried for a cell.
PlaceableUp(cells, i, size, occupied) ==
    /\ <<CellX(cells[i], size), CellY(cells[i], size)>> \notin occupied
    /\ TailFree(CellX(cells[i], size), CellY(cells[i], size), "UP", size, occupied)

\* Whether the scan `for (const cell of allCells)` places the cat at the i-th
\* cell: the cell is unoccupied and some direction has a free tail (every
\* direction is tried for a cell, so their order does not decide this).
Placeable(cells, i, size, occupied) ==
    /\ <<CellX(cells[i], size), CellY(cells[i], size)>> \notin occupied
    /\ \E k \in 1..4 :
          TailFree(CellX(cells[i], size), CellY(cells[i], size),
                   Directions[k], size, occupied)

\* That scan over the cells lo..hi: the index of the first placeable cell, 0
\* when there is none.
RECURSIVE FirstPlaceableCell(_, _, _, _, _)
FirstPlaceableCell(cells, lo, hi, size, occupied) ==
    IF lo > hi THEN 0
    ELSE IF lo = hi THEN (IF Placeable(cells, lo, size, occupied) THEN lo ELSE 0)
    ELSE LET mid == (lo + hi) \div 2
         IN  Only({IF left # 0 THEN left
                   ELSE FirstPlaceableCell(cells, mid + 1, hi, size, occupied) :
                      left \in {FirstPlaceableCell(cells, lo, mid, size, occupied)}})

\* The first direction, in the order dirs, with a free tail for the cell.
FirstTailFree(dirs, cx, cy, size, occupied) ==
    LET first == CHOOSE k \in 1..4 :
                     /\ TailFree(cx, cy, dirs[k], size, occupied)
                     /\ \A m \in 1..(k - 1) : ~TailFree(cx, cy, dirs[m], size, occupied)
    IN  dirs[first]

\* A faulty re-homing: the piece is built anew, as a NORMAL piece of the first
\* skin, and only its identifier is kept.
RehomePlain(oldCat, cx, cy, dir) ==
    [id |-> oldCat.id, x |-> Num(cx), y |-> Num(cy), direction |-> dir,
     type |-> "NORMAL", timer |-> Undefined, color |-> 0,
     isExited |-> FALSE, isMoving |-> FALSE]

\* A faulty re-homing: a bomb put on a new spot has its full time again.
RehomeRewind(oldCat, cx, cy, dir) ==
    [oldCat EXCEPT !.x = Num(cx), !.y = Num(cy), !.direction = dir, !.isMoving = FALSE,
                   !.timer = IF oldCat.type = "BOMB" THEN BOMB_TIME_SECONDS ELSE Undefined]

\* { ...oldCat, x: cell.x, y: cell.y, direction: dir, isMoving: false }
Rehome(oldCat, cx, cy, dir) ==
    [oldCat EXCEPT !.x = Num(cx), !.y = Num(cy), !.direction = dir, !.isMoving = FALSE]

\* One iteration of the loop `for (const oldCat of activeCats)`, for the j-th
\* active cat; st holds the loop's variables newActiveCats and occupied, and
\* the index `from` of the cell the previous cat was placed at.  The code scans
\* allCells from its first cell for every cat; the cells before `from` were not
\* placeable for the previous cat and occupied has only grown since, so the
\* scan skips them again and is taken up at `from`.
PlaceOne(activeCats, j, cells, st, size, seed) ==
    Only({IF i = 0
          \* If we fail to place, the cat is effectively removed.
          THEN st
          ELSE LET cx == CellX(cells[i], size)
                   cy == CellY(cells[i], size)
               IN  Only({[newActiveCats |->
                              Append(st.newActiveCats, Rehome(activeCats[j], cx, cy, dir)),
                          occupied |->
                              st.occupied \cup {<<cx, cy>>,
                                                <<cx - getDelta(dir).dx, cy - getDelta(dir).dy>>},
                          from |-> i] :
                            dir \in {FirstTailFree(RandomDirections(seed, ShuffleDraw(j, i)),
                                                   cx, cy, size, st.occupied)}}) :
             i \in {FirstPlaceableCell(cells, st.from, Len(cells), size, st.occupied)}})

\* The iterations lo..hi of that loop, in order.
RECURSIVE PlaceActive(_, _, _, _, _, _, _)
PlaceActive(activeCats, lo, hi, cells, st, size, seed) ==
    IF lo > hi THEN st
    ELSE IF lo = hi THEN PlaceOne(activeCats, lo, cells, st, size, seed)
    ELSE LET mid == (lo + hi) \div 2
         IN  Only({PlaceActive(activeCats, mid + 1, hi, cells, first, size, seed) :
                      first \in {PlaceActive(activeCats, lo, mid, cells, st, size, seed)}})

\* A faulty shuffle: it re-homes every piece, the exited ones as well.
shuffleCatsAll(currentCats, size, seed) ==
    LET everyCat == [k \in 1..Len(currentCats) |-> [currentCats[k] EXCEPT !.isExited = FALSE]]
        placed == PlaceActive(everyCat, 1, Len(everyCat), ShuffledCells[size, seed],
                              [newActiveCats |-> << >>, occupied |-> {}, from |-> 1],
                              size, seed)
    IN  SortRowMajor(placed.newActiveCats)

shuffleCats(currentCats, size, seed) ==
    LET activeCats == SelectSeq(currentCats, LAMBDA c : ~c.isExited)
        exitedCats == SelectSeq(currentCats, LAMBDA c : c.isExited)
        allCells == ShuffledCells[size, seed]
        placed == PlaceActive(activeCats, 1, Len(activeCats), allCells,
                              [newActiveCats |-> << >>, occupied |-> {}, from |-> 1],
                              size, seed)
    IN  SortRowMajor(exitedCats \o placed.newActiveCats)

\* ----------------------------------------------------------------- flip all

\* A faulty flip: the head goes to the tail and the direction stays, the piece
\* has stepped back.
FlipCatBack(cat) ==
    IF cat.isExited THEN cat
    ELSE [cat EXCEPT !.x = cat.x - Num(getDelta(cat.direction).dx),
                     !.y = cat.y - Num(getDelta(cat.direction).dy)]

\* A faulty flip: the direction is reversed and the head stays where it is.
FlipCatInPlace(cat) ==
    IF cat.isExited THEN cat
    ELSE [cat EXCEPT !.direction = getOppositeDir(cat.direction)]

\* A faulty flip: it turns the exited pieces round as well.
FlipCatEvery(cat) ==
    [cat EXCEPT !.direction = getOppositeDir(cat.direction),
                !.x = cat.x - Num(getDelta(cat.direction).dx),
                !.y = cat.y - Num(getDelta(cat.direction).dy)]

\* The map callback of handleGlobalFlip.
FlipCat(cat) ==
    IF cat.isExited THEN cat
    ELSE LET newDir == IF cat.direction = "UP" THEN "DOWN"
                       ELSE IF cat.direction = "DOWN" THEN "UP"
                       ELSE IF cat.direction = "LEFT" THEN "RIGHT"
                       ELSE IF cat.direction = "RIGHT" THEN "LEFT"
                       ELSE "UP"
             delta == getDelta(cat.direction)
         IN  [cat EXCEPT !.direction = newDir,
                         !.x = cat.x - Num(delta.dx),
                         !.y = cat.y - Num(delta.dy)]

FlipAll(prev) == [i \in 1..Len(prev) |-> FlipCat(prev[i])]

\* ---------------------------------------------------------- move resolution

\* A faulty obstacle test: it looks at the heads and forgets the tails.
IsObstacleHeadOnly(c, id, nextX, nextY) ==
    /\ ~(c.id = id \/ c.isExited)
    /\ Round(c.x) = nextX /\ Round(c.y) = nextY

\* The callback of cats.find in the raycast: c obstructs the cell (nextX, nextY)
\* for the cat with identifier id.
IsObstacle(c, id, nextX, nextY) ==
    /\ ~(c.id = id \/ c.isExited)
    /\ \/ Round(c.x) = nextX /\ Round(c.y) = nextY
       \/ Round(TailX(c)) = nextX /\ Round(TailY(c)) = nextY

\* A faulty raycast: the boundary stops the piece as an obstacle does.
RECURSIVE RaycastWall(_, _, _, _, _, _)
RaycastWall(allCats, cat, size, step, targetX, targetY) ==
    LET d == getDelta(cat.direction)
        nextX == cat.x + Num(d.dx * step)
        nextY == cat.y + Num(d.dy * step)
    IN  IF \/ step > size
           \/ nextX < Num(0) \/ nextX >= Num(size) \/ nextY < Num(0) \/ nextY >= Num(size)
           \/ \E k \in 1..Len(allCats) : IsObstacle(allCats[k], cat.id, nextX, nextY)
        THEN [targetX |-> targetX, targetY |-> targetY, willExit |-> FALSE]
        ELSE RaycastWall(allCats, cat, size, step + 1, nextX, nextY)

\* A faulty raycast: the piece stops on the obstructed cell and not before it.
RECURSIVE RaycastOnto(_, _, _, _, _, _)
RaycastOnto(allCats, cat, size, step, targetX, targetY) ==
    IF step > size
    THEN [targetX |-> targetX, targetY |-> targetY, willExit |-> FALSE]
    ELSE
      LET d == getDelta(cat.direction)
          nextX == cat.x + Num(d.dx * step)
          nextY == cat.y + Num(d.dy * step)
      IN  IF nextX < Num(0) \/ nextX >= Num(size)
             \/ nextY < Num(0) \/ nextY >= Num(size)
          THEN [targetX |-> nextX + d.dx * ExitDistance(size),
                targetY |-> nextY + d.dy * ExitDistance(size),
                willExit |-> TRUE]
          ELSE IF \E k \in 1..Len(allCats) : IsObstacle(allCats[k], cat.id, nextX, nextY)
          THEN [targetX |-> nextX, targetY |-> nextY, willExit |-> FALSE]
          ELSE RaycastOnto(allCats, cat, size, step + 1, nextX, nextY)

\* The raycast loop of handleCatClick from `step` on; targetX / targetY are the
\* values the loop variables hold when the step begins.
RECURSIVE Raycast(_, _, _, _, _, _)
Raycast(allCats, cat, size, step, targetX, targetY) ==
    IF step > size
    THEN [targetX |-> targetX, targetY |-> targetY, willExit |-> FALSE]
    ELSE
      LET d == getDelta(cat.direction)
          nextX == cat.x + Num(d.dx * step)
          nextY == cat.y + Num(d.dy * step)
      IN  IF nextX < Num(0) \/ nextX >= Num(size)
             \/ nextY < Num(0) \/ nextY >= Num(size)
          THEN [targetX |-> nextX + d.dx * ExitDistance(size),
                targetY |-> nextY + d.dy * ExitDistance(size),
                willExit |-> TRUE]
          ELSE IF \E k \in 1..Len(allCats) : IsObstacle(allCats[k], cat.id, nextX, nextY)
          THEN [targetX |-> nextX - Num(d.dx), targetY |-> nextY - Num(d.dy),
                willExit |-> FALSE]
          ELSE Raycast(allCats, cat, size, step + 1, nextX, nextY)

\* cats.findIndex(c => c.id === id), 0 for -1.
FindIndex(allCats, id) ==
    IF \E k \in 1..Len(allCats) : allCats[k].id = id
    THEN CHOOSE k \in 1..Len(allCats) :
             allCats[k].id = id /\ \A m \in 1..(k - 1) : allCats[m].id # id
    ELSE 0

\* --------------------------------------------------------------- hint scan

\* The callback of other => ... in the hint scan.
HintBlocks(other, cat, nx, ny) ==
    /\ other.id # cat.id
    /\ \/ Round(other.x) = nx /\ Round(other.y) = ny
       \/ Round(other.x - Num(getDelta(other.direction).dx)) = nx
          /\ Round(other.y - Num(getDelta(other.direction).dy)) = ny

\* A faulty simulated path: a free first cell is taken for a clear path.
HintPathFirstStep(activeCats, cat, size, step) ==
    LET d == getDelta(cat.direction)
        nx == cat.x + Num(d.dx * step)
        ny == cat.y + Num(d.dy * step)
    IN  \/ nx < Num(0) \/ nx >= Num(size) \/ ny < Num(0) \/ ny >= Num(size)
        \/ ~\E k \in 1..Len(activeCats) : HintBlocks(activeCats[k], cat, nx, ny)

\* The callback of activeCats.find: the simulated path of cat from `step` on.
RECURSIVE HintPath(_, _, _, _)
HintPath(activeCats, cat, size, step) ==
    IF step > size THEN FALSE
    ELSE
      LET d == getDelta(cat.direction)
          nx == cat.x + Num(d.dx * step)
          ny == cat.y + Num(d.dy * step)
      IN  IF nx < Num(0) \/ nx >= Num(size) \/ ny < Num(0) \/ ny >= Num(size)
          THEN TRUE
          ELSE IF \E k \in 1..Len(activeCats) : HintBlocks(activeCats[k], cat, nx, ny)
          THEN FALSE
          ELSE HintPath(activeCats, cat, size, step + 1)

\* A faulty scan: findLast for find, the last cat whose path is clear.
RECURSIVE FindValidLast(_, _, _, _)
FindValidLast(activeCats, lo, hi, size) ==
    IF lo > hi THEN 0
    ELSE IF lo = hi THEN (IF HintPath(activeCats, activeCats[lo], size, 1) THEN lo ELSE 0)
    ELSE LET mid == (lo + hi) \div 2
         IN  Only({IF right # 0 THEN right
                   ELSE FindValidLast(activeCats, lo, mid, size) :
                      right \in {FindValidLast(activeCats, mid + 1, hi, size)}})

\* activeCats.find over the cats lo..hi: the index of the first cat whose
\* simulated path is clear, 0 when find returns undefined.
RECURSIVE FindValid(_, _, _, _)
FindValid(activeCats, lo, hi, size) ==
    IF lo > hi THEN 0
    ELSE IF lo = hi THEN (IF HintPath(activeCats, activeCats[lo], size, 1) THEN lo ELSE 0)
    ELSE LET mid == (lo + hi) \div 2
         IN  Only({IF left # 0 THEN left
                   ELSE FindValid(activeCats, mid + 1, hi, size) :
                      left \in {FindValid(activeCats, lo, mid, size)}})

\* The body of the hint timeout: the id of validCat, or "null" when find
\* returns undefined.
FindHint(allCats, size) ==
    LET activeCats == SelectSeq(allCats, LAMBDA c : ~c.isExited)
        validCat == FindValid(activeCats, 1, Len(activeCats), size)
    IN  IF validCat = 0 THEN "null" ELSE activeCats[validCat].id

\* ------------------------------------------------------------------ driver

VARIABLES
    level,               \* useState: the current level number
    cats,                \* useState: the piece list
    gridSize,            \* useState
    gameState,           \* useState: START_MENU, PLAYING, WON, LOST
    isAnimating,         \* useState
    isPaused,            \* useState
    activeTool,          \* useState: NONE, REMOVE
    hintCatId,           \* useState: a cat id or "null"
    interactionTrigger,  \* useState: counter that restarts the hint countdown
    animTimeouts,        \* pending setTimeout(() => setIsAnimating(false)) callbacks
    hintTimer,           \* the hint effect's 10 s timeout is pending
    winTimer,            \* the win-check effect's 500 ms timeout is pending
    levelData            \* what the last generateLevel call returned

vars == <<level, cats, gridSize, gameState, isAnimating, isPaused, activeTool,
          hintCatId, interactionTrigger, animTimeouts, hintTimer, winTimer, levelData>>

\* The levels localStorage may hold at start-up that a play-through begins at.
StartLevels == {1, 5}

NoLevelData == [cats |-> << >>, gridSize |-> 0, level |-> 0, unlockedMessage |-> "undefined"]

\* The state after the first render; `lvl` is the level read from localStorage.
InitWith(lvl) ==
    /\ level = lvl
    /\ cats = << >>
    /\ gridSize = 10
    /\ gameState = "START_MENU"
    /\ isAnimating = FALSE
    /\ isPaused = FALSE
    /\ activeTool = "NONE"
    /\ hintCatId = "null"
    /\ interactionTrigger = 0
    /\ animTimeouts = 0
    /\ hintTimer = FALSE
    /\ winTimer = FALSE
    /\ levelData = NoLevelData

\* ---- effects, run after every render whose dependencies changed

\* Hint effect: the condition under which the 10 s timeout is set.
HintArmed(gs, paused, animating, tool) ==
    ~(gs # "PLAYING" \/ paused \/ animating \/ tool # "NONE")

\* Win-check effect: the condition under which the 500 ms timeout is set.
WinArmed(allCats, gs) ==
    /\ gs = "PLAYING"
    /\ Len(allCats) > 0
    /\ Len(SelectSeq(allCats, LAMBDA c : ~c.isExited)) = 0

\* Faulty effects: the win-check effect has no cleanup, a timeout once set
\* stays pending.
EffectsNoCleanup(h) ==
    /\ IF <<cats, gameState, isPaused, isAnimating, activeTool, gridSize, interactionTrigger>>'
          # <<cats, gameState, isPaused, isAnimating, activeTool, gridSize, interactionTrigger>>
       THEN /\ hintCatId' = "null"
            /\ hintTimer' = HintArmed(gameState', isPaused', isAnimating', activeTool')
       ELSE /\ hintCatId' = h
            /\ hintTimer' = hintTimer
    /\ IF <<cats, gameState>>' # <<cats, gameState>>
       THEN winTimer' = (winTimer \/ WinArmed(cats', gameState'))
       ELSE winTimer' = winTimer

\* The two effects after a handler that leaves hintCatId at h: each runs (its
\* cleanup clears the old timeout first) when one of its dependencies changed.
Effects(h) ==
    /\ IF <<cats, gameState, isPaused, isAnimating, activeTool, gridSize, interactionTrigger>>'
          # <<cats, gameState, isPaused, isAnimating, activeTool, gridSize, interactionTrigger>>
       THEN /\ hintCatId' = "null"
            /\ hintTimer' = HintArmed(gameState', isPaused', isAnimating', activeTool')
       ELSE /\ hintCatId' = h
            /\ hintTimer' = hintTimer
    /\ IF <<cats, gameState>>' # <<cats, gameState>>
       THEN winTimer' = WinArmed(cats', gameState')
       ELSE winTimer' = winTimer

\* ---- what the player can reach on the screen

\* The HUD, the board and the toolbar are covered by the start screen, the pause
\* modal and the win/loss modal.
BoardReachable == gameState = "PLAYING" /\ ~isPaused

\* ---- handlers

\* startLevel(lvl), with the random inputs of its generateLevel call.
startLevel(lvl, emptySlots, seed) ==
    /\ levelData' = generateLevel(lvl, emptySlots, seed)
    /\ cats' = levelData'.cats
    /\ gridSize' = levelData'.gridSize
    /\ gameState' = "PLAYING"
    /\ isAnimating' = FALSE
    /\ activeTool' = "NONE"
    /\ isPaused' = FALSE
    /\ interactionTrigger' = interactionTrigger + 1
    /\ UNCHANGED animTimeouts
    /\ Effects("null")

\* What the model keeps of a generateLevel(lvl) call that threw: no board.
Thrown(lvl) == [NoLevelData EXCEPT !.level = lvl]

\* A faulty catch branch: the fallback state is PLAYING.
startLevelCatchPlaying(lvl) ==
    /\ levelData' = Thrown(lvl)
    /\ gameState' = "PLAYING"
    /\ UNCHANGED <<gridSize, isAnimating, activeTool, isPaused, interactionTrigger,
                   animTimeouts>>

\* startLevel(lvl) when its generateLevel call throws: none of the setters of
\* the try block has run, and the catch branch sets the game state.
startLevelCatch(lvl) ==
    /\ levelData' = Thrown(lvl)
    /\ gameState' = "START_MENU"
    /\ UNCHANGED <<gridSize, isAnimating, activeTool, isPaused, interactionTrigger,
                   animTimeouts>>

\* A faulty Play Now: it starts from level 1, not from the persisted level.
handleStartGameFromOne(emptySlots, seed) ==
    /\ gameState = "START_MENU"
    /\ startLevel(1, emptySlots, seed)
    /\ level' = 1

\* Play Now on the start screen.
handleStartGame(emptySlots, seed) ==
    /\ gameState = "START_MENU"
    /\ startLevel(level, emptySlots, seed)
    /\ UNCHANGED level

\* The restart button of the HUD: startLevel(level).
RestartLevel(emptySlots, seed) ==
    /\ BoardReachable
    /\ startLevel(level, emptySlots, seed)
    /\ UNCHANGED level

\* Try Again on the loss modal: startLevel(level).
TryAgain(emptySlots, seed) ==
    /\ gameState = "LOST"
    /\ startLevel(level, emptySlots, seed)
    /\ UNCHANGED level

\* Next Level on the win modal.
handleNextLevel(emptySlots, seed) ==
    /\ gameState = "WON"
    /\ level' = level + 1
    /\ startLevel(level + 1, emptySlots, seed)

\* Play Now, the restart button and Next Level when generateLevel throws.
handleStartGameCatch ==
    /\ gameState = "START_MENU"
    /\ startLevelCatch(level)
    /\ UNCHANGED <<level, cats>>
    /\ Effects(hintCatId)

RestartLevelCatch ==
    /\ BoardReachable
    /\ startLevelCatch(level)
    /\ UNCHANGED <<level, cats>>
    /\ Effects(hintCatId)

handleNextLevelCatch ==
    /\ gameState = "WON"
    /\ level' = level + 1
    /\ cats' = << >>
    /\ startLevelCatch(level + 1)
    /\ Effects(hintCatId)

handleHome ==
    /\ BoardReachable
    /\ isPaused' = TRUE
    /\ UNCHANGED <<level, cats, gridSize, gameState, isAnimating, activeTool,
                   interactionTrigger, animTimeouts, levelData>>
    /\ Effects(hintCatId)

\* Resume on the pause modal (the win modal, when shown, covers it).
resumeGame ==
    /\ isPaused
    /\ gameState = "PLAYING"
    /\ isPaused' = FALSE
    /\ UNCHANGED <<level, cats, gridSize, gameState, isAnimating, activeTool,
                   interactionTrigger, animTimeouts, levelData>>
    /\ Effects(hintCatId)

\* Quit to Home on the pause modal, Back to Home on the win/loss modal.
confirmHome ==
    /\ isPaused \/ gameState \in {"WON", "LOST"}
    /\ gameState # "START_MENU"
    /\ gameState' = "START_MENU"
    /\ isPaused' = FALSE
    /\ UNCHANGED <<level, cats, gridSize, isAnimating, activeTool,
                   interactionTrigger, animTimeouts, levelData>>
    /\ Effects(hintCatId)

\* The Remove button of the toolbar.
ToggleRemoveTool ==
    /\ BoardReachable
    /\ activeTool' = IF activeTool = "REMOVE" THEN "NONE" ELSE "REMOVE"
    /\ UNCHANGED <<level, cats, gridSize, gameState, isAnimating, isPaused,
                   interactionTrigger, animTimeouts, levelData>>
    /\ Effects(hintCatId)

handleToolShuffle(seed) ==
    /\ BoardReachable
    /\ ~(gameState # "PLAYING" \/ isAnimating \/ isPaused)
    /\ interactionTrigger' = interactionTrigger + 1
    /\ isAnimating' = TRUE
    /\ cats' = shuffleCats(cats, gridSize, seed)
    /\ activeTool' = "NONE"
    /\ animTimeouts' = animTimeouts + 1
    /\ UNCHANGED <<level, gridSize, gameState, isPaused, levelData>>
    /\ Effects(hintCatId)

handleGlobalFlip ==
    /\ BoardReachable
    /\ ~(gameState # "PLAYING" \/ isAnimating \/ isPaused)
    /\ interactionTrigger' = interactionTrigger + 1
    /\ isAnimating' = TRUE
    /\ cats' = FlipAll(cats)
    /\ activeTool' = "NONE"
    /\ animTimeouts' = animTimeouts + 1
    /\ UNCHANGED <<level, gridSize, gameState, isPaused, levelData>>
    /\ Effects(hintCatId)

\* A faulty filter: the comparison is inverted, only the clicked piece stays.
RemoveCatOthers(prev, id) == SelectSeq(prev, LAMBDA c : c.id = id)

\* prev.filter(c => c.id !== id)
RemoveCat(prev, id) == SelectSeq(prev, LAMBDA c : c.id # id)

\* The cat after a move to (targetX, targetY).
MovedCat(cat, hit) ==
    [cat EXCEPT !.x = hit.targetX, !.y = hit.targetY,
                !.isExited = hit.willExit, !.isMoving = TRUE]

\* A faulty move: the update is written even when the target is the head.
ResolveMoveAlways(allCats, id, size) ==
    LET catIndex == FindIndex(allCats, id)
        cat == allCats[catIndex]
        hit == Raycast(allCats, cat, size, 1, cat.x, cat.y)
    IN  IF catIndex = 0 THEN [kind |-> "gone", cats |-> allCats]
        ELSE IF cat.isExited THEN [kind |-> "exited", cats |-> allCats]
        ELSE [kind |-> IF hit.targetX = cat.x /\ hit.targetY = cat.y THEN "noop" ELSE "moved",
              cats |-> [allCats EXCEPT ![catIndex] = MovedCat(cat, hit)]]

\* What handleCatClick does to the piece list when the remove tool is not
\* selected: [kind, cats], kind being "gone" (no such id), "exited" (the cat
\* has left), "noop" (the target is the cat's own head) or "moved".
ResolveMove(allCats, id, size) ==
    LET catIndex == FindIndex(allCats, id)
    IN  IF catIndex = 0 THEN [kind |-> "gone", cats |-> allCats]
        ELSE
          LET cat == allCats[catIndex]
          IN  IF cat.isExited THEN [kind |-> "exited", cats |-> allCats]
              ELSE
                LET hit == Raycast(allCats, cat, size, 1, cat.x, cat.y)
                IN  IF hit.targetX = cat.x /\ hit.targetY = cat.y
                    THEN [kind |-> "noop", cats |-> allCats]
                    ELSE [kind |-> "moved",
                          cats |-> [allCats EXCEPT ![catIndex] = MovedCat(cat, hit)]]

\* A faulty handler: the no-op return leaves isAnimating set (setIsAnimating(false)
\* of the no-op branch is missing), and nothing will clear it.
handleCatClickStuck(id) ==
    /\ BoardReachable
    /\ ~(gameState # "PLAYING" \/ isAnimating \/ isPaused)
    /\ IF activeTool = "REMOVE"
       THEN /\ interactionTrigger' = interactionTrigger + 2
            /\ cats' = RemoveCat(cats, id)
            /\ activeTool' = "NONE"
            /\ UNCHANGED <<isAnimating, animTimeouts>>
       ELSE LET r == ResolveMove(cats, id, gridSize)
            IN  /\ interactionTrigger' = interactionTrigger + 1
                /\ cats' = r.cats
                /\ isAnimating' = (r.kind \in {"noop", "moved"})
                /\ animTimeouts' = IF r.kind = "moved" THEN animTimeouts + 1
                                   ELSE animTimeouts
                /\ UNCHANGED activeTool
    /\ UNCHANGED <<level, gridSize, gameState, isPaused, levelData>>
    /\ Effects(hintCatId)

\* A click on the cat with identifier id.
handleCatClick(id) ==
    /\ BoardReachable
    /\ ~(gameState # "PLAYING" \/ isAnimating \/ isPaused)
    /\ IF activeTool = "REMOVE"
       THEN \* handleToolRemove(id), after the increment of handleCatClick
            /\ interactionTrigger' = interactionTrigger + 2
            /\ cats' = RemoveCat(cats, id)
            /\ activeTool' = "NONE"
            /\ UNCHANGED <<isAnimating, animTimeouts>>
       ELSE LET r == ResolveMove(cats, id, gridSize)
            IN  /\ interactionTrigger' = interactionTrigger + 1
                /\ cats' = r.cats
                /\ isAnimating' = (r.kind = "moved")
                /\ animTimeouts' = IF r.kind = "moved" THEN animTimeouts + 1
                                   ELSE animTimeouts
                /\ UNCHANGED activeTool
    /\ UNCHANGED <<level, gridSize, gameState, isPaused, levelData>>
    /\ Effects(hintCatId)

\* ---- timers

\* A faulty callback: the !cat.isExited test is missing.
TickCatExited(cat) ==
    IF cat.type = "BOMB" /\ cat.timer # Undefined
    THEN IF cat.timer <= 0 THEN cat ELSE [cat EXCEPT !.timer = cat.timer - 1]
    ELSE cat

\* The map callback of the bomb interval.
TickCat(cat) ==
    IF cat.type = "BOMB" /\ ~cat.isExited /\ cat.timer # Undefined
    THEN IF cat.timer <= 0 THEN cat ELSE [cat EXCEPT !.timer = cat.timer - 1]
    ELSE cat

\* A faulty interval: it is not cleared when the game is paused.
BombTickPaused ==
    /\ gameState = "PLAYING"
    /\ LET bombs == {k \in 1..Len(cats) :
                        cats[k].type = "BOMB" /\ ~cats[k].isExited
                        /\ cats[k].timer # Undefined}
           gameOver == \E k \in bombs : cats[k].timer <= 0
           hasChanges == \E k \in bombs : ~(cats[k].timer <= 0)
           nextCats == [k \in 1..Len(cats) |-> TickCat(cats[k])]
       IN  /\ cats' = IF hasChanges THEN nextCats ELSE cats
           /\ gameState' = IF gameOver THEN "LOST" ELSE gameState
    /\ UNCHANGED <<level, gridSize, isAnimating, isPaused, activeTool,
                   interactionTrigger, animTimeouts, levelData>>
    /\ Effects(hintCatId)

\* One firing of the 1 s interval, which exists while PLAYING and not paused.
BombTick ==
    /\ ~(gameState # "PLAYING" \/ isPaused)
    /\ LET bombs == {k \in 1..Len(cats) :
                        cats[k].type = "BOMB" /\ ~cats[k].isExited
                        /\ cats[k].timer # Undefined}
           gameOver == \E k \in bombs : cats[k].timer <= 0
           hasChanges == \E k \in bombs : ~(cats[k].timer <= 0)
           nextCats == [k \in 1..Len(cats) |-> TickCat(cats[k])]
       IN  /\ cats' = IF hasChanges THEN nextCats ELSE cats
           /\ gameState' = IF gameOver THEN "LOST" ELSE gameState
    /\ UNCHANGED <<level, gridSize, isAnimating, isPaused, activeTool,
                   interactionTrigger, animTimeouts, levelData>>
    /\ Effects(hintCatId)

\* One of the pending setTimeout(() => setIsAnimating(false), 300 / 500 / 600).
AnimTimeout ==
    /\ animTimeouts > 0
    /\ animTimeouts' = animTimeouts - 1
    /\ isAnimating' = FALSE
    /\ UNCHANGED <<level, cats, gridSize, gameState, isPaused, activeTool,
                   interactionTrigger, levelData>>
    /\ Effects(hintCatId)

\* The 10 s timeout of the hint effect.
HintTimeout ==
    /\ hintTimer
    /\ hintTimer' = FALSE
    /\ hintCatId' = LET validCat == FindHint(cats, gridSize)
                    IN  IF validCat # "null" THEN validCat ELSE hintCatId
    /\ UNCHANGED <<level, cats, gridSize, gameState, isAnimating, isPaused,
                   activeTool, interactionTrigger, animTimeouts, winTimer, levelData>>

\* The 500 ms timeout of the win-check effect.
WinTimeout ==
    /\ winTimer
    /\ gameState' = "WON"
    /\ UNCHANGED <<level, cats, gridSize, isAnimating, isPaused, activeTool,
                   interactionTrigger, animTimeouts, levelData>>
    /\ Effects(hintCatId)

\* ------------------------------------------------------------ specifications

Init == \E lvl \in StartLevels : InitWith(lvl)

\* The bomb interval has fired fewer than MaxTicks times on this board.
TickBudget ==
    \A k \in 1..Len(cats) :
        cats[k].type = "BOMB" => cats[k].timer > BOMB_TIME_SECONDS - MaxTicks

\* Handlers that count an interaction are taken MaxInteractions times.
Budget == interactionTrigger < MaxInteractions

\* The densest and the sparsest draw of emptySlots.
EmptySlotEnds == {minEmpty, maxEmpty}

StartGame == Budget /\ \E e \in EmptySlotEnds, s \in Seeds : handleStartGame(e, s)

CatClick == Budget /\ \E k \in 1..Len(cats) : handleCatClick(cats[k].id)

Shuffle == Budget /\ \E s \in Seeds : handleToolShuffle(s)

Flip == Budget /\ handleGlobalFlip

Tick == TickBudget /\ BombTick

\* One level played with moves, shuffles, flips and the timers.
Next ==
    \/ StartGame
    \/ CatClick
    \/ Shuffle
    \/ Flip
    \/ Tick
    \/ AnimTimeout
    \/ HintTimeout

Spec == Init /\ [][Next]_vars


\* The handlers that change where the pieces are, without the bomb interval and
\* the hint: the boards a level passes through.
NextBoards ==
    \/ StartGame
    \/ CatClick
    \/ Shuffle
    \/ Flip
    \/ AnimTimeout

SpecBoards == Init /\ [][NextBoards]_vars

\* The restart button, a budgeted interaction like Play Now.
Restart == Budget /\ \E e \in EmptySlotEnds, s \in Seeds : RestartLevel(e, s)

RemoveTool == ToggleRemoveTool

Pause == handleHome

Resume == resumeGame

Quit == confirmHome

\* The board, the toolbar and the restart button, and the settle timeouts.
NextTools ==
    \/ StartGame
    \/ CatClick
    \/ Shuffle
    \/ Flip
    \/ RemoveTool
    \/ Restart
    \/ AnimTimeout

SpecTools == Init /\ [][NextTools]_vars

\* A non-exited bomb is in its last LastSeconds seconds, or out of time.
BombLate ==
    \E k \in 1..Len(cats) :
        cats[k].type = "BOMB" /\ ~cats[k].isExited /\ cats[k].timer <= LastSeconds

\* The interval firing for as long as the level is played.
Countdown == BombTick

\* A click of a player who has waited for the last seconds of a bomb.
LateClick == BombLate /\ CatClick

\* A level left alone until a bomb is running out, and played from there.
NextBomb ==
    \/ StartGame
    \/ Countdown
    \/ LateClick
    \/ AnimTimeout

SpecBomb == Init /\ [][NextBomb]_vars

\* The number of non-exited pieces on the board.
Remaining == Len(SelectSeq(cats, LAMBDA c : ~c.isExited))

\* The level is played out: at most EndgamePieces pieces are left, or the
\* board is not in play.
Endgame == gameState # "PLAYING" \/ Remaining <= EndgamePieces

\* Past the pieces of the level, MaxInteractions interactions are explored;
\* when the last generation gave no board, past the pieces the grid can hold.
LevelBudget ==
    interactionTrigger <
        (IF levelData.gridSize = 0 THEN (gridSize * gridSize) \div 2
         ELSE Len(levelData.cats)) + MaxInteractions

\* Until the endgame the player clicks the piece the hint scan would show.
FollowHint ==
    /\ ~Endgame
    /\ interactionTrigger < Len(levelData.cats)
    /\ \E id \in {FindHint(cats, gridSize)} : id # "null" /\ handleCatClick(id)

EndClick == Endgame /\ LevelBudget /\ \E k \in 1..Len(cats) : handleCatClick(cats[k].id)

EndRestart ==
    Endgame /\ LevelBudget /\ \E e \in EmptySlotEnds, s \in Seeds : RestartLevel(e, s)

PlayNow == LevelBudget /\ \E e \in EmptySlotEnds, s \in Seeds : handleStartGame(e, s)

NextLevel == LevelBudget /\ \E e \in EmptySlotEnds, s \in Seeds : handleNextLevel(e, s)

StartGameThrows == handleStartGameCatch

RestartThrows == Endgame /\ RestartLevelCatch

NextLevelThrows == handleNextLevelCatch

\* A level from Play Now to Next Level: the player follows the hints down to
\* the endgame and is free from there; every generateLevel call may throw.
NextLevels ==
    \/ PlayNow
    \/ StartGameThrows
    \/ FollowHint
    \/ EndClick
    \/ EndRestart
    \/ RestartThrows
    \/ NextLevel
    \/ NextLevelThrows
    \/ Quit
    \/ AnimTimeout
    \/ WinTimeout

SpecLevels == Init /\ [][NextLevels]_vars

\* The board as Play Now left it: no interaction since.
Untouched == interactionTrigger <= 1

\* The player is at the board: no bomb has ticked more than MaxTicks times.
Attended ==
    \A k \in 1..Len(cats) :
        cats[k].type = "BOMB" => cats[k].timer >= BOMB_TIME_SECONDS - MaxTicks

\* The interval firing on a level left alone, and MaxTicks times on a board in
\* play.
Interval == (Untouched \/ TickBudget) /\ BombTick

\* The player pauses before the first move.
PauseNow == Untouched /\ Pause

HintClick == Attended /\ FollowHint

\* In the endgame the player clicks the pieces still on the board.
LastClick ==
    /\ Attended /\ Endgame /\ LevelBudget
    /\ \E k \in 1..Len(cats) : ~cats[k].isExited /\ handleCatClick(cats[k].id)

\* The tools are tried when the endgame begins.
ToolTime == Attended /\ gameState = "PLAYING" /\ Remaining = EndgamePieces

EndShuffle == ToolTime /\ LevelBudget /\ \E s \in Seeds : handleToolShuffle(s)

EndFlip == ToolTime /\ LevelBudget /\ handleGlobalFlip

EndRemoveTool == ToolTime /\ RemoveTool

\* Play Now on the first visit of the start screen and on the one after.
PlayAgain == Untouched /\ StartGame

\* A level through all its modes: played to the end with every tool, paused,
\* quit, won, and lost to a bomb.
NextModes ==
    \/ PlayAgain
    \/ HintClick
    \/ LastClick
    \/ EndShuffle
    \/ EndFlip
    \/ EndRemoveTool
    \/ Interval
    \/ PauseNow
    \/ Quit
    \/ AnimTimeout
    \/ WinTimeout

SpecModes == Init /\ [][NextModes]_vars

\* A non-exited bomb is on the board: the interval, one second after it last
\* fired, changes cats or the game state, and the hint effect reruns and
\* clears its timeout.
Ticking ==
    /\ gameState = "PLAYING" /\ ~isPaused
    /\ \E k \in 1..Len(cats) :
          cats[k].type = "BOMB" /\ ~cats[k].isExited /\ cats[k].timer # Undefined

\* One second passes on a board nobody touches.
Second == BombTick

\* The hint timeout expires, ten seconds after it was set: it was not set anew
\* in between, which the interval does every second while a bomb is ticking.
IdleHint == ~Ticking /\ HintTimeout

\* Play Now, and the player leaves the level alone.
NextIdle ==
    \/ StartGame
    \/ Second
    \/ IdleHint

SpecIdle == Init /\ [][NextIdle]_vars

\* No piece on the board has slid: every move so far took its piece out.
Pristine == \A k \in 1..Len(cats) : cats[k].isMoving => cats[k].isExited

\* On such a board the player takes the pieces out one by one, the piece the
\* hint scan would show each time.
Solve ==
    /\ Pristine
    /\ interactionTrigger <= Len(levelData.cats) + MaxInteractions
    /\ \E id \in {FindHint(cats, gridSize)} : id # "null" /\ handleCatClick(id)

\* A level played with moves alone: any MaxInteractions clicks from Play Now
\* on, and the boards without a slid piece played to the end.
NextMoves ==
    \/ StartGame
    \/ CatClick
    \/ Solve
    \/ AnimTimeout

SpecMoves == Init /\ [][NextMoves]_vars

\* Before the first removal the player takes out the piece the hint scan
\* would show.
TakeOut ==
    /\ activeTool = "NONE"
    /\ Len(cats) = Len(levelData.cats)
    /\ \E id \in {FindHint(cats, gridSize)} : id # "null" /\ handleCatClick(id)

\* The Remove button, pressed to select the tool.
PickRemove == activeTool = "NONE" /\ RemoveTool

\* With the remove tool the player clicks the first piece still on the board.
RemoveFirst ==
    /\ activeTool = "REMOVE"
    /\ \E k \in 1..Len(cats) :
          /\ ~cats[k].isExited
          /\ \A j \in 1..(k - 1) : cats[j].isExited
          /\ handleCatClick(cats[k].id)

\* A level cleared piece by piece, by exits and from some piece on by the
\* remove tool; the player neither restarts nor quits.
NextClear ==
    \/ StartGame
    \/ TakeOut
    \/ PickRemove
    \/ RemoveFirst
    \/ AnimTimeout
    \/ WinTimeout

\* The timeouts fire when their delay has passed (300 to 600 ms, 500 ms).
SpecClear ==
    Init /\ [][NextClear]_vars /\ WF_vars(AnimTimeout) /\ WF_vars(WinTimeout)

\* What localStorage.getItem and parseInt give the initialiser: no item, the
\* empty string, a string parseInt makes NaN of, or one it makes an integer of.
SavedItems ==
    {[kind |-> "absent", parsed |-> 0], [kind |-> "empty", parsed |-> 0],
     [kind |-> "NaN", parsed |-> 0]}
    \cup {[kind |-> "int", parsed |-> n] : n \in {-1, 0} \cup StartLevels}

\* The initialiser of the level state.
initialLevel(saved) ==
    IF saved.kind \in {"absent", "empty"} THEN 1
    ELSE IF saved.kind # "NaN" /\ saved.parsed > 0 THEN saved.parsed
    ELSE 1

InitSaved == \E saved \in SavedItems : InitWith(initialLevel(saved))

\* Try Again, after a loss.
Retry == \E e \in EmptySlotEnds, s \in Seeds : TryAgain(e, s)

\* The restart button, pressed in the endgame by a player at the board.
LateRestart == Attended /\ EndRestart

\* The game from the stored level on, through every button that starts,
\* restarts, pauses, leaves or follows a level, and the countdown to a loss.
NextCounter ==
    \/ PlayAgain
    \/ HintClick
    \/ LastClick
    \/ EndFlip
    \/ Interval
    \/ PauseNow
    \/ Resume
    \/ Quit
    \/ AnimTimeout
    \/ WinTimeout
    \/ LateRestart
    \/ RestartThrows
    \/ Retry
    \/ NextLevel
    \/ NextLevelThrows

SpecCounter == InitSaved /\ [][NextCounter]_vars

\* Levels that cover every branch of getLevelConfig.
GenLevels == (1..20) \cup {30}

InitGen == \E lvl \in GenLevels : InitWith(lvl)

\* Play Now with every draw of emptySlots.
Generate == \E e \in EmptySlotDraws, s \in Seeds : handleStartGame(e, s)

\* The generator alone, on every level of GenLevels.
SpecGen == InitGen /\ [][Generate]_vars

\* ------------------------------------------------------------------ claims

\* The non-exited pieces of the piece list.
Active == {k \in 1..Len(cats) : ~cats[k].isExited}

\* The two cells of a piece: its head and its tail.
Cells(c) == {<<c.x, c.y>>, <<TailX(c), TailY(c)>>}

\* The piece the generator returned under the identifier of c.
Original(c) ==
    levelData.cats[CHOOSE k \in 1..Len(levelData.cats) : levelData.cats[k].id = c.id]

\* C1: no two distinct non-exited pieces share a cell (head or tail), in every
\* state reached from a generated level by moves, shuffles, flips and bomb
\* ticks.
\* The head and the tail of one piece differ, so the pieces share no cell
\* exactly when their cells number two apiece.
NoOverlap ==
    /\ \A i \in Active : Cardinality(Cells(cats[i])) = 2
    /\ Cardinality(UNION {Cells(cats[i]) : i \in Active}) = 2 * Cardinality(Active)

\* A piece has slid and stopped behind another piece, on a board that a flip or
\* a shuffle has changed as well.
NoOverlapWitness ==
    /\ \E i \in Active : cats[i].isMoving
    /\ \E j \in Active : ~cats[j].isMoving /\ cats[j].direction # Original(cats[j]).direction

\* C2: the head and the tail of every non-exited piece lie in [0, gridSize) on
\* both axes.
InBounds ==
    \A i \in Active :
        \A cell \in Cells(cats[i]) :
            /\ cell[1] >= Num(0) /\ cell[1] < Num(gridSize)
            /\ cell[2] >= Num(0) /\ cell[2] < Num(gridSize)

\* A flip or a shuffle has turned a piece round, and its tail is on the left
\* border now.
InBoundsWitness ==
    \E i \in Active :
        /\ TailX(cats[i]) = Num(0)
        /\ cats[i].direction = "RIGHT"
        /\ Original(cats[i]).direction = "LEFT"

\* The cells of a piece as the collision tests read them.
RoundedCells(c) ==
    {<<Round(c.x), Round(c.y)>>, <<Round(TailX(c)), Round(TailY(c))>>}

\* A step within one level leaves every exited piece exited.
ExitedStay ==
    levelData' = levelData =>
        \A i \in 1..Len(cats) : \A j \in 1..Len(cats') :
            cats[i].isExited /\ cats'[j].id = cats[i].id => cats'[j].isExited

\* The raycast takes no exited piece for an obstacle, at whatever cell and for
\* whatever moving piece, and the hint scan that is due gives the answer it
\* gives on the non-exited pieces alone.
ExitedNoObstacle ==
    /\ \A k \in 1..Len(cats) :
          cats[k].isExited =>
              \A cell \in RoundedCells(cats[k]) : \A m \in 1..Len(cats) :
                  ~IsObstacle(cats[k], cats[m].id, cell[1], cell[2])
    /\ hintTimer /\ Active # 1..Len(cats) =>
          FindHint(cats, gridSize)
              = FindHint(SelectSeq(cats, LAMBDA c : ~c.isExited), gridSize)

\* C3: once a piece is exited, no later move, shuffle, flip or bomb tick of the
\* same level makes it non-exited again, and an exited piece is never an
\* obstacle for the move resolution or the hint scan.
ExitMonotone == [][ExitedStay]_vars /\ []ExitedNoObstacle

\* A piece has exited and a later move or shuffle has put another piece on a
\* cell the exited piece was generated on.
ExitMonotoneWitness ==
    \E k \in 1..Len(cats) : \E j \in Active :
        /\ cats[k].isExited
        /\ Cells(cats[j]) \cap Cells(Original(cats[k])) # {}

\* What flip-all keeps: the list's length and order, every exited piece as it
\* is, and of a non-exited piece everything but head and direction.
FlipFrame ==
    /\ Len(cats') = Len(cats)
    /\ \A k \in 1..Len(cats) :
          /\ cats[k].isExited => cats'[k] = cats[k]
          /\ [cats'[k] EXCEPT !.x = cats[k].x, !.y = cats[k].y,
                              !.direction = cats[k].direction] = cats[k]

\* C4: flip-all changes no piece's id, kind, timer or variant, leaves every
\* exited piece unchanged and keeps the non-exited pieces the same in number
\* and identity; only heads and directions of non-exited pieces change.
FlipConservation == [][handleGlobalFlip => FlipFrame]_vars

\* Flip-all has just run on a board with an exited piece: a non-exited piece
\* stands reversed on the cells it was generated on.
FlipConservationWitness ==
    /\ isAnimating
    /\ \E k \in 1..Len(cats) : cats[k].isExited
    /\ \E j \in Active :
          /\ cats[j].direction = getOppositeDir(Original(cats[j]).direction)
          /\ cats[j].x = TailX(Original(cats[j]))
          /\ cats[j].y = TailY(Original(cats[j]))

\* C5: a generated level never holds more pieces than its target count, and
\* when the placement loop reached the target, gridSize * gridSize - 2 * count
\* lies in [2, 10]; for every level number and every draw of emptySlots.
DensityBound ==
    \A e \in EmptySlotDraws : \A s \in Seeds :
        LET generated == generateLevel(level, e, s)
            count == Len(generated.cats)
            empty == generated.gridSize * generated.gridSize - 2 * count
        IN  /\ count <= targetCatCount(generated.gridSize, e)
            /\ count = targetCatCount(generated.gridSize, e)
                  => empty >= minEmpty /\ empty <= maxEmpty

\* C9: below level 5 the generated level has gridSize 8, no BOMB piece and no
\* timer on any (NORMAL) piece; level 1 carries the level-1 unlock message.
EarlyLevels ==
    /\ levelData.level \in 1..4 =>
          /\ levelData.gridSize = 8
          /\ \A k \in 1..Len(levelData.cats) :
                /\ levelData.cats[k].type = "NORMAL"
                /\ levelData.cats[k].timer = Undefined
    /\ levelData.level = 1 => levelData.unlockedMessage = "Tap cats to clear!"

\* Level 4, the last level below 5, has been generated and is on the board.
EarlyLevelsWitness ==
    /\ levelData.level = 4
    /\ gameState = "PLAYING"
    /\ Len(cats) > 0 /\ cats = levelData.cats

\* The cells of the non-exited pieces other than the k-th.
OtherCells(k) == UNION {Cells(cats[i]) : i \in Active \ {k}}

\* The cells ahead of the head of c, along its direction, up to the boundary.
Ahead(c) ==
    {<<c.x + Num(n * getDelta(c.direction).dx), c.y + Num(n * getDelta(c.direction).dy)>> :
        n \in 1..gridSize}
    \cap ({Num(n) : n \in 0..(gridSize - 1)} \X {Num(n) : n \in 0..(gridSize - 1)})

\* No head or tail of another non-exited piece lies ahead of the k-th piece.
PathClear(k) == Ahead(cats[k]) \cap OtherCells(k) = {}

\* The index of the piece with identifier id, 0 when there is none.
IndexOf(id) ==
    IF \E k \in 1..Len(cats) : cats[k].id = id
    THEN CHOOSE k \in 1..Len(cats) : cats[k].id = id
    ELSE 0

\* The head (x, y) lies outside the grid.
Outside(x, y) == x < Num(0) \/ x >= Num(gridSize) \/ y < Num(0) \/ y >= Num(gridSize)

\* The piece with identifier id is on the board, not exited, has a clear path,
\* and a click on it makes it exit.
Exits(id) ==
    LET k == IndexOf(id)
        r == ResolveMove(cats, id, gridSize)
    IN  /\ k # 0
        /\ ~cats[k].isExited
        /\ PathClear(k)
        /\ r.kind = "moved"
        /\ r.cats[k].isExited /\ Outside(r.cats[k].x, r.cats[k].y)

\* C6: the hint scan never selects an exited piece or a piece with a head or
\* tail of another non-exited piece between its head and the boundary; the
\* hinted piece, moved in that state, exits.
HintCorrect == hintCatId # "null" => Exits(hintCatId)

\* A hint is shown on a board with an exited piece, and a piece before the
\* hinted one can slide without leaving.
HintCorrectWitness ==
    /\ hintCatId # "null"
    /\ \E k \in 1..Len(cats) : cats[k].isExited
    /\ \E j \in Active :
          /\ j < IndexOf(hintCatId)
          /\ ResolveMove(cats, cats[j].id, gridSize).kind = "moved"
          /\ ~PathClear(j)

\* The conditions under which CatClick and Shuffle have a step to take.
CanClick == Budget /\ BoardReachable /\ ~isAnimating /\ Len(cats) > 0

CanShuffle == Budget /\ BoardReachable /\ ~isAnimating

\* The cell next to the head of c, along its direction.
NextCell(c) == <<c.x + Num(getDelta(c.direction).dx), c.y + Num(getDelta(c.direction).dy)>>

\* The cell directly ahead of the k-th piece is a head or tail of another
\* non-exited piece.
Blocked(k) == NextCell(cats[k]) \in OtherCells(k)

\* C7: a click on a non-exited piece with a clear path makes it exit, its new
\* head outside the grid; and the raycast never leaves a piece inside the grid
\* unless the next cell is obstructed: the gridSize steps reach the boundary.
UnobstructedExit ==
    CanClick =>
        \A k \in Active :
            LET r == ResolveMove(cats, cats[k].id, gridSize)
            IN  /\ PathClear(k) =>
                      /\ r.kind = "moved"
                      /\ r.cats[k].isExited
                      /\ Outside(r.cats[k].x, r.cats[k].y)
                /\ r.kind \in {"noop", "moved"}
                /\ ~r.cats[k].isExited =>
                      NextCell(r.cats[k]) \in OtherCells(k)

\* A piece that was generated away from the boundary has just exited.
UnobstructedExitWitness ==
    /\ isAnimating
    /\ \E k \in 1..Len(cats) :
          /\ cats[k].isExited /\ Outside(cats[k].x, cats[k].y)
          /\ Ahead(Original(cats[k])) # {}

\* C8: when the cell directly ahead of a piece is a head or tail of another
\* non-exited piece, resolving the move leaves the whole piece list unchanged.
BlockedNoop ==
    CanClick =>
        \A k \in Active :
            Blocked(k) =>
                ResolveMove(cats, cats[k].id, gridSize) = [kind |-> "noop", cats |-> cats]

\* A blocked piece has been clicked: the click is counted and the board is
\* still as generated, with nothing animating.
BlockedNoopWitness ==
    /\ gameState = "PLAYING"
    /\ interactionTrigger > 1
    /\ cats = levelData.cats
    /\ ~isAnimating /\ animTimeouts = 0
    /\ \E k \in Active : Blocked(k)

\* What a shuffle result `next` carries over from the piece list `prev`.
CarryOver(prev, next) ==
    LET exitedOf(l) == {k \in 1..Len(l) : l[k].isExited}
        activeOf(l) == {k \in 1..Len(l) : ~l[k].isExited}
    IN  \* every exited piece is returned, unchanged, and no other exited piece
        /\ {next[k] : k \in exitedOf(next)} = {prev[k] : k \in exitedOf(prev)}
        /\ Cardinality(exitedOf(next)) = Cardinality(exitedOf(prev))
        \* a non-exited piece of the result is exactly one non-exited input piece
        /\ \A k \in activeOf(next) :
              /\ Cardinality({j \in activeOf(prev) : prev[j].id = next[k].id}) = 1
              /\ \A j \in activeOf(prev) :
                    prev[j].id = next[k].id =>
                        [next[k] EXCEPT !.x = prev[j].x, !.y = prev[j].y,
                                        !.direction = prev[j].direction,
                                        !.isMoving = prev[j].isMoving] = prev[j]
        \* no identifier twice
        /\ \A k \in 1..Len(next) : \A m \in 1..Len(next) :
              next[k].id = next[m].id => k = m

\* C10: shuffle returns every exited piece unchanged; every non-exited piece
\* of its result has the id, kind, timer, variant and exited = false of exactly
\* one non-exited input piece; no id is duplicated and no piece is invented.
ShuffleCarryOver ==
    CanShuffle =>
        \A s \in Seeds : \A next \in {shuffleCats(cats, gridSize, s)} :
            CarryOver(cats, next)

\* A shuffle has just re-homed the pieces of a board with an exited piece.
ShuffleCarryOverWitness ==
    /\ isAnimating
    /\ \E k \in 1..Len(cats) : cats[k].isExited
    /\ \A j \in Active : ~cats[j].isMoving
    /\ \E j \in Active :
          Cells(cats[j]) # Cells(Original(cats[j]))

\* The identifiers of the piece list l.
Ids(l) == {l[k].id : k \in 1..Len(l)}

\* The identifiers this step drops from the piece list.
Lost == Ids(cats) \ Ids(cats')

\* The step put a newly generated level on the board.
ListReplaced == levelData' # levelData

\* The step is a shuffle, and the pieces it dropped were non-exited.
ShuffleDropped ==
    /\ CanShuffle
    /\ isAnimating'
    /\ \E s \in Seeds : cats' = shuffleCats(cats, gridSize, s)
    /\ \A k \in 1..Len(cats) : cats[k].id \in Lost => ~cats[k].isExited

\* The step is a click with the remove tool: one piece goes, the rest stays.
RemovedByTool ==
    /\ activeTool = "REMOVE"
    /\ Cardinality(Lost) = 1
    /\ cats' = SelectSeq(cats, LAMBDA c : c.id \notin Lost)

\* C11 as stated: a piece disappears from the piece list only when the level's
\* list is replaced or when shuffle could not place it.
PieceLifecycle == [][Lost # {} => ListReplaced \/ ShuffleDropped]_vars

\* C11, amended: a piece disappears from the piece list only when the level's
\* list is replaced, when shuffle could not place it, or when the player clicks
\* it with the remove tool selected.
PieceLifecycleTool ==
    [][Lost # {} => ListReplaced \/ RemovedByTool \/ ShuffleDropped]_vars

\* The remove tool has taken one piece from the board: the others stand as
\* generated and the tool is put back.
PieceLifecycleToolWitness ==
    /\ gameState = "PLAYING"
    /\ activeTool = "NONE"
    /\ Len(cats) = Len(levelData.cats) - 1
    /\ \A k \in 1..Len(cats) : cats[k] = Original(cats[k])

\* C12 as stated: every piece on the board has the id, kind, timer and variant
\* it was created with.
FieldsAsCreated ==
    \A k \in 1..Len(cats) :
        /\ cats[k].id \in Ids(levelData.cats)
        /\ cats[k].type = Original(cats[k]).type
        /\ cats[k].timer = Original(cats[k]).timer
        /\ cats[k].color = Original(cats[k]).color

\* The step is the periodic tick acting on piece c, which becomes d: c is a
\* non-exited bomb with time left, it loses one second and nothing else, and
\* the step counts no interaction.
TickedOnce(c, d) ==
    /\ c.type = "BOMB" /\ ~c.isExited
    /\ c.timer # Undefined /\ c.timer > 0
    /\ d = [c EXCEPT !.timer = c.timer - 1]
    /\ interactionTrigger' = interactionTrigger

\* Piece d of the new list is piece c of the old one with kind and variant
\* kept, and with the timer kept unless the step is the tick.
KeepsFields(c, d) ==
    /\ d.type = c.type
    /\ d.color = c.color
    /\ d.timer = c.timer \/ TickedOnce(c, d)

\* A step that generates a level puts the generator's pieces on the board; any
\* other step keeps id, kind and variant of every piece, and its timer unless
\* the step is the tick. (The pieces are compared place by place when the
\* step kept every identifier in its place, pair by pair otherwise.)
FieldStep ==
    IF levelData' # levelData THEN cats' = levelData'.cats
    ELSE IF cats' = cats THEN TRUE
    ELSE IF Len(cats') = Len(cats) /\ \A k \in 1..Len(cats) : cats'[k].id = cats[k].id
    THEN \A k \in 1..Len(cats) : KeepsFields(cats[k], cats'[k])
    ELSE \A i \in 1..Len(cats) : \A j \in 1..Len(cats') :
            cats'[j].id = cats[i].id => KeepsFields(cats[i], cats'[j])

\* C12, amended: after a piece is created, id, kind and variant keep their
\* creation values; the timer is changed by the periodic tick alone, which
\* takes one second off a non-exited bomb that has time left; move, shuffle and
\* flip change head, direction, exited and moving only.
MutableFields ==
    /\ [][FieldStep]_vars
    /\ [](\A k \in 1..Len(cats) :
            /\ cats[k].id \in Ids(levelData.cats)
            /\ cats[k].type = "NORMAL" => cats[k].timer = Undefined)

\* A bomb has exited with its timer untouched, another bomb has been ticked,
\* and a piece has been turned round by a flip or a shuffle.
MutableFieldsWitness ==
    /\ \E k \in 1..Len(cats) :
          /\ cats[k].type = "BOMB" /\ cats[k].isExited
          /\ cats[k].timer = BOMB_TIME_SECONDS
    /\ \E j \in Active :
          cats[j].type = "BOMB" /\ cats[j].timer < BOMB_TIME_SECONDS
    /\ \E j \in Active : cats[j].direction # Original(cats[j]).direction

\* The in-bounds cells orthogonally adjacent to cell, on a grid of side size.
Neighbours(cell, size) ==
    {<<cell[1] + Num(getDelta(d).dx), cell[2] + Num(getDelta(d).dy)>> :
        d \in {Directions[i] : i \in 1..Len(Directions)}}
    \cap ({Num(n) : n \in 0..(size - 1)} \X {Num(n) : n \in 0..(size - 1)})

\* The cells the pieces of the generated level occupy.
GeneratedCells == UNION {Cells(levelData.cats[k]) : k \in 1..Len(levelData.cats)}

\* C13: in every generated level, every piece has at least one unoccupied
\* in-bounds cell orthogonally adjacent to one of its two cells.
EmptyNeighbour ==
    \A k \in 1..Len(levelData.cats) :
        \E cell \in Cells(levelData.cats[k]) :
            Neighbours(cell, levelData.gridSize) \ GeneratedCells # {}

\* C13, amended: in every generated level, at least one piece has an
\* unoccupied in-bounds cell orthogonally adjacent to one of its two cells.
SomeEmptyNeighbour ==
    levelData # NoLevelData =>
        \E k \in 1..Len(levelData.cats) :
            \E cell \in Cells(levelData.cats[k]) :
                Neighbours(cell, levelData.gridSize) \ GeneratedCells # {}

\* A dense level is on the board: it reached its target with two cells left
\* over, and more pieces than those two cells have neighbours.
SomeEmptyNeighbourWitness ==
    /\ gameState = "PLAYING" /\ cats = levelData.cats
    /\ gridSize * gridSize - 2 * Len(cats) = minEmpty
    /\ Len(cats) > 4 * minEmpty
    /\ ~EmptyNeighbour

\* A non-exited bomb has run out of time while the level is played.
Expired ==
    /\ gameState = "PLAYING"
    /\ \E k \in Active : cats[k].type = "BOMB" /\ cats[k].timer = 0

\* C14: whenever the timer of a non-exited bomb piece has reached 0 during
\* play, the level ends in failure: from then on a step either makes the game
\* state LOST or leaves the pieces where they are and the level not won.
BombExpiryEndsLevel ==
    [][Expired => gameState' = "LOST" \/ (cats' = cats /\ gameState' = "PLAYING")]_vars

\* The last generateLevel call threw.
GenerationThrew == levelData.level # 0 /\ levelData = Thrown(levelData.level)

\* C15: if level generation throws, the game state becomes START_MENU, and the
\* game is never PLAYING with the failed generation's board: a board in play
\* was generated for the current level. (Play Now, restart and Next Level.)
GenerationFallback ==
    /\ GenerationThrew => gameState = "START_MENU"
    /\ gameState = "PLAYING" =>
          /\ levelData.level = level
          /\ levelData.gridSize = gridSize
          /\ Ids(cats) \subseteq Ids(levelData.cats)

\* Next Level has failed: the level number is raised, the piece list is
\* empty, and the start screen is shown.
GenerationFallbackWitness ==
    /\ GenerationThrew
    /\ levelData.level = level
    /\ level \notin StartLevels
    /\ cats = << >>
    /\ gameState = "START_MENU"

\* C16: between an accepted move, shuffle or flip and the expiry of that
\* operation's own settle timeout, no further move, shuffle or flip is
\* accepted: a step that sets a settle timeout finds none pending.
SerializedTriggers == [][animTimeouts' > animTimeouts => animTimeouts = 0]_vars

\* The step is a click, with no tool selected, on a non-exited piece whose
\* resolved destination is its current head. (No step of handleCatClick
\* leaves the counter alone, and a no-op sets no timeout: tested first.)
NoopClickStep ==
    /\ BoardReachable /\ ~isAnimating /\ activeTool = "NONE"
    /\ interactionTrigger' # interactionTrigger
    /\ animTimeouts' = animTimeouts
    /\ \E k \in Active :
          /\ ResolveMove(cats, cats[k].id, gridSize).kind = "noop"
          /\ handleCatClick(cats[k].id)

\* C18 as stated: a no-op move changes no state at all, the interaction
\* counter included.
NoopUncounted == [][NoopClickStep => UNCHANGED vars]_vars

\* C18, amended: a no-op move leaves the piece list, the grid, the game state,
\* the pause and animation state and the tool as they are, but it is counted:
\* the interaction counter goes up by one, which takes the shown hint away and
\* restarts the idle-hint countdown.
NoopCounted ==
    [][NoopClickStep =>
          /\ UNCHANGED <<level, cats, gridSize, gameState, isAnimating, isPaused,
                         activeTool, winTimer, levelData>>
          /\ interactionTrigger' = interactionTrigger + 1
          /\ hintCatId' = "null"
          /\ hintTimer']_vars

\* A blocked piece has been clicked on a board where a piece has moved before:
\* nothing animates, no hint is shown and the hint countdown runs.
NoopCountedWitness ==
    /\ gameState = "PLAYING"
    /\ interactionTrigger = MaxInteractions
    /\ ~isAnimating /\ animTimeouts = 0
    /\ hintCatId = "null" /\ hintTimer
    /\ \E k \in Active : Blocked(k)
    /\ \E j \in 1..Len(cats) : cats[j].isMoving
    /\ \A j \in Active : cats[j].direction = Original(cats[j]).direction

\* The cell n cells ahead of the head of c, along its direction.
StepCell(c, n) ==
    <<c.x + Num(n * getDelta(c.direction).dx), c.y + Num(n * getDelta(c.direction).dy)>>

\* The n cells ahead of the k-th piece are inside the grid and free of the
\* other non-exited pieces.
FreeAhead(k, n) ==
    \A m \in 1..n :
        /\ ~Outside(StepCell(cats[k], m)[1], StepCell(cats[k], m)[2])
        /\ StepCell(cats[k], m) \notin OtherCells(k)

\* The number of free cells ahead of the k-th piece.
FreeRun(k) == CHOOSE n \in 0..gridSize : FreeAhead(k, n) /\ ~FreeAhead(k, n + 1)

\* The guard of handleCatClick lets a click on the board through.
CanResolve == BoardReachable /\ ~isAnimating /\ Len(cats) > 0

\* The k-th piece has n >= 1 free cells ahead and an obstruction behind them.
ObstructedAfter(k, n) == n >= 1 /\ StepCell(cats[k], n + 1) \in OtherCells(k)

\* C19: when a move is obstructed after n >= 1 free cells, the new head is
\* exactly n cells ahead of the old head, the cell directly ahead of the new
\* head is a head or tail of another non-exited piece, exited stays false, and
\* every other piece is unchanged.
SlideToObstruction ==
    CanResolve =>
        \A k \in Active :
            \A n \in {FreeRun(k)} :
                ObstructedAfter(k, n) =>
                    LET r == ResolveMove(cats, cats[k].id, gridSize)
                    IN  /\ r.kind = "moved"
                        /\ r.cats = [cats EXCEPT ![k] =
                                        [cats[k] EXCEPT !.x = StepCell(cats[k], n)[1],
                                                        !.y = StepCell(cats[k], n)[2],
                                                        !.isMoving = TRUE]]
                        /\ ~r.cats[k].isExited
                        /\ NextCell(r.cats[k]) \in OtherCells(k)

\* A piece has slid into the room an exited piece left and stands behind
\* another piece; the settle timeout has fired.
SlideToObstructionWitness ==
    /\ CanResolve
    /\ \E j \in 1..Len(cats) : cats[j].isExited
    /\ \E k \in Active :
          /\ cats[k].isMoving
          /\ cats[k].direction = Original(cats[k]).direction
          /\ \E n \in 1..gridSize : <<cats[k].x, cats[k].y>> = StepCell(Original(cats[k]), n)
          /\ Blocked(k)

\* The non-exited pieces with no head or tail of a non-exited piece between
\* their head and the boundary (their own cells lie behind their head).
ClearPieces ==
    LET occupied == UNION {Cells(cats[i]) : i \in Active}
    IN  {k \in Active :
            \A n \in 1..gridSize :
                LET cell == StepCell(cats[k], n)
                IN  Outside(cell[1], cell[2]) \/ cell \notin occupied}

\* The first of them in the order of the piece list.
FirstClear == CHOOSE k \in ClearPieces : \A j \in ClearPieces : k <= j

\* The step of the hint timeout: the pending timeout goes and nothing the hint
\* effect depends on changes.
HintScan ==
    /\ hintTimer
    /\ ~hintTimer'
    /\ interactionTrigger' = interactionTrigger
    /\ isAnimating' = isAnimating
    /\ gameState' = gameState
    /\ cats' = cats

\* C20: the hint scan selects the first piece, in piece-list order, among the
\* non-exited pieces whose path to the boundary is unobstructed, and selects
\* none only if no non-exited piece has an unobstructed path.
HintFirst ==
    [][HintScan =>
          hintCatId' = IF ClearPieces = {} THEN "null" ELSE cats[FirstClear].id]_vars

\* A hint is shown on a board with an exited piece; pieces before the hinted
\* one are obstructed and a piece after it has a clear path as well.
HintFirstWitness ==
    /\ hintCatId # "null"
    /\ \E k \in 1..Len(cats) : cats[k].isExited
    /\ \E i \in Active : i < IndexOf(hintCatId) /\ ~PathClear(i)
    /\ \E j \in Active : j > IndexOf(hintCatId) /\ PathClear(j)

\* Four times the squared distance of the cell (x, y) from the grid centre
\* (size/2, size/2), x and y in half cells.
CentreDist(x, y, size) == (x - size) * (x - size) + (y - size) * (y - size)

\* C21: for every generated piece the head is not nearer to the grid centre
\* than the tail, the tail being the in-bounds cell one step behind the head
\* against the piece's direction.
OutwardOrientation ==
    \A k \in 1..Len(levelData.cats) :
        LET c == levelData.cats[k]
        IN  /\ ~Outside(TailX(c), TailY(c))
            /\ ~Outside(c.x, c.y)
            /\ CentreDist(c.x, c.y, levelData.gridSize)
                  >= CentreDist(TailX(c), TailY(c), levelData.gridSize)

\* A generated level of an odd grid: one piece has its head farther from the
\* centre than its tail, another lies across the centre line with head and
\* tail at the same distance.
OutwardOrientationWitness ==
    /\ gameState = "PLAYING"
    /\ \E k \in 1..Len(levelData.cats) :
          LET c == levelData.cats[k]
          IN  CentreDist(c.x, c.y, levelData.gridSize)
                > CentreDist(TailX(c), TailY(c), levelData.gridSize)
    /\ \E k \in 1..Len(levelData.cats) :
          LET c == levelData.cats[k]
          IN  CentreDist(c.x, c.y, levelData.gridSize)
                = CentreDist(TailX(c), TailY(c), levelData.gridSize)

\* Head and tail of the k-th piece change places in the step; its two cells
\* are the same after it.
HeadTailSwapped(k) ==
    /\ <<cats'[k].x, cats'[k].y>> = <<TailX(cats[k]), TailY(cats[k])>>
    /\ <<TailX(cats'[k]), TailY(cats'[k])>> = <<cats[k].x, cats[k].y>>
    /\ Cells(cats'[k]) = Cells(cats[k])

\* C22: flip-all makes the old tail of every non-exited piece its head and the
\* old head its tail, so the cells of every piece are unchanged; flip-all
\* applied to the flipped list restores every piece's head and direction.
FlipSwaps ==
    [][handleGlobalFlip =>
          /\ \A k \in Active : HeadTailSwapped(k)
          /\ \A k \in 1..Len(cats) :
                /\ FlipAll(cats')[k].x = cats[k].x
                /\ FlipAll(cats')[k].y = cats[k].y
                /\ FlipAll(cats')[k].direction = cats[k].direction]_vars

\* Flip-all has run twice on a generated board (the interactions after the
\* one of the level's start), the second time after the first had settled:
\* the pieces are as they were generated.
FlipSwapsWitness ==
    /\ gameState = "PLAYING"
    /\ isAnimating
    /\ interactionTrigger = 3
    /\ Len(cats) > 0
    /\ cats = levelData.cats

\* A step that leaves the level with fewer pieces in the list: without the
\* remove tool, a shuffle that has dropped a piece.
ShuffleDrops ==
    /\ isAnimating'
    /\ levelData' = levelData
    /\ Len(cats') < Len(cats)

\* The cells of the non-exited pieces after the step: the new placement.
NewPlacement == UNION {Cells(cats'[i]) : i \in {k \in 1..Len(cats') : ~cats'[k].isExited}}

\* The new placement has two orthogonally adjacent, in-bounds, unoccupied
\* cells.
FreePair ==
    \E x \in 0..(gridSize - 1), y \in 0..(gridSize - 1) :
        /\ <<Num(x), Num(y)>> \notin NewPlacement
        /\ \/ x + 1 < gridSize /\ <<Num(x + 1), Num(y)>> \notin NewPlacement
           \/ y + 1 < gridSize /\ <<Num(x), Num(y + 1)>> \notin NewPlacement

\* C23: a non-exited piece is missing from shuffle's result only if the new
\* placement had no pair of orthogonally adjacent, in-bounds, unoccupied cells
\* when its turn came. The pieces are placed in list order and the ones
\* missing are the last of them, so the placement of its turn is the one of
\* the result.
ShuffleDropsUnplaceable ==
    [][ShuffleDrops =>
          /\ ~FreePair
          /\ \A i \in Active : \A j \in Active :
                i < j /\ cats[j].id \in Ids(cats') => cats[i].id \in Ids(cats')]_vars

\* A shuffle has dropped a piece: the list is shorter than the generated one
\* and the pieces left have been moved.
ShuffleDropsUnplaceableWitness ==
    /\ gameState = "PLAYING"
    /\ isAnimating
    /\ Len(cats) > 0
    /\ Len(cats) < Len(levelData.cats)

\* C24 as stated: there is a generation run, of the level at hand or of any
\* other level, in which a cell that was skipped when visited, no direction
\* admitting a valid tail, is occupied in the final level.
SkippedCellOccupied ==
    \E lvl \in GenLevels \cup {level} : \E e \in EmptySlotDraws : \E s \in Seeds :
        LET run == GenerationTrace(lvl, e, s)
        IN  run.skipped \cap run.st.occupied # {}

\* C24, amended: a cell skipped when visited is occupied by no piece of the
\* final level, in every generation run of the current level, and every
\* in-bounds neighbour of it is occupied.
SkippedCellsStayEmpty ==
    \A e \in EmptySlotDraws : \A s \in Seeds :
        LET run == GenerationTrace(level, e, s)
            size == getLevelConfig(level).size
        IN  /\ run.skipped \cap run.st.occupied = {}
            /\ \A cell \in run.skipped : \A k \in 1..4 :
                  LET nx == cell[1] - getDelta(Directions[k]).dx
                      ny == cell[2] - getDelta(Directions[k]).dy
                  IN  isValid(nx, ny, size) => <<nx, ny>> \in run.st.occupied

\* The level on the board came from a run that skipped a cell, and that cell
\* is among the cells no piece of the level lies on.
SkippedCellsStayEmptyWitness ==
    /\ gameState = "PLAYING"
    /\ \E e \in EmptySlotDraws : \E s \in Seeds :
          LET run == GenerationTrace(level, e, s)
          IN  /\ SortRowMajor(run.st.cats) = levelData.cats
              /\ \E cell \in run.skipped :
                    <<Num(cell[1]), Num(cell[2])>> \notin GeneratedCells

\* The game is not in unpaused play: on the start screen, won, lost or paused.
NotInPlay == gameState # "PLAYING" \/ isPaused

\* C25: a move, shuffle, flip, removal or bomb tick changes the piece list only
\* in unpaused play: out of it no piece changes, but for the step that starts
\* a level from the start screen and replaces the list.
OnlyInPlay ==
    [][NotInPlay /\ cats' # cats =>
          gameState = "START_MENU" /\ gameState' = "PLAYING" /\ cats' = levelData'.cats]_vars

\* The game is paused on a board whose bomb has ticked: its timer stands.
OnlyInPlayWitness ==
    /\ gameState = "PLAYING"
    /\ isPaused
    /\ \E k \in Active : cats[k].type = "BOMB" /\ cats[k].timer < BOMB_TIME_SECONDS

\* The piece list is not empty and every piece in it has exited.
AllExited == Len(cats) > 0 /\ \A k \in 1..Len(cats) : cats[k].isExited

\* C26: the game state becomes WON only from PLAYING and only when the piece
\* list of that moment is non-empty with every piece exited, the step leaving
\* the list as it is; and a win timeout is pending only for the board it was
\* scheduled for, so one scheduled for a board replaced since (restart, next
\* level, quit) does not fire.
WinSound ==
    [][/\ gameState' = "WON" /\ gameState # "WON" =>
              gameState = "PLAYING" /\ AllExited /\ cats' = cats
       /\ winTimer' => gameState' = "PLAYING" /\ AllExited']_vars

\* The level is won, on a list of exited pieces, after more interactions than
\* its start and one click for each piece.
WinSoundWitness ==
    /\ gameState = "WON"
    /\ AllExited
    /\ interactionTrigger > Len(cats) + 1

\* The bomb with the least time left has counted more than HintDelaySeconds
\* seconds: on a board left alone since Play Now, the idle time.
IdleLong ==
    \E k \in Active :
        /\ cats[k].type = "BOMB"
        /\ cats[k].timer < BOMB_TIME_SECONDS - HintDelaySeconds

\* C27: when the game has been PLAYING, unpaused, not animating, with no tool
\* selected and no interaction for 10 seconds and a non-exited piece has an
\* unobstructed path, a hint piece is selected, whatever the kinds of the
\* pieces.
IdleHintDelivered ==
    /\ gameState = "PLAYING" /\ ~isPaused /\ ~isAnimating /\ activeTool = "NONE"
    /\ ClearPieces # {}
    /\ IdleLong
    => hintCatId # "null"

\* C28: in every state reached from a generated level by moves alone, if a
\* non-exited piece remains then a non-exited piece has an unobstructed path
\* to the boundary, and a click on it takes it out.
NoDeadlock ==
    gameState = "PLAYING" /\ Active # {} =>
        ClearPieces # {} /\ Exits(cats[FirstClear].id)

\* A board in play after moves: a piece has left, another has slid and
\* stands behind a piece, and pieces remain.
NoDeadlockWitness ==
    /\ gameState = "PLAYING"
    /\ \E k \in 1..Len(cats) : cats[k].isExited
    /\ \E k \in Active : cats[k].isMoving /\ ~PathClear(k)
    /\ Cardinality(Active) > 1

\* C29: whenever the game is PLAYING on a started level and no non-exited
\* piece remains in the piece list, the game eventually reaches WON (the
\* player neither restarts nor quits), however the last pieces left the board.
ClearingWins ==
    (gameState = "PLAYING" /\ Len(levelData.cats) > 0 /\ Active = {})
        ~> (gameState = "WON")

\* The timer of piece d, which is piece c one step later: not greater, by one
\* less at most, the same if c has exited or the step is an interaction.
TimerStep(c, d) ==
    /\ d.type = c.type
    /\ d.timer <= c.timer
    /\ d.timer >= c.timer - 1
    /\ c.isExited => d.timer = c.timer
    /\ interactionTrigger' # interactionTrigger => d.timer = c.timer

\* C30: the timer of every BOMB piece is within 0..BOMB_TIME_SECONDS and a
\* NORMAL piece has none, in every state; within a level no timer increases,
\* a tick takes one second off and never below 0, an exited bomb keeps its
\* timer, and move, shuffle, flip and removal leave the timers as they are.
BombTimerRange ==
    [][/\ \A k \in 1..Len(cats') :
             IF cats'[k].type = "BOMB"
             THEN cats'[k].timer \in 0..BOMB_TIME_SECONDS
             ELSE cats'[k].timer = Undefined
       /\ gameState = "PLAYING" /\ levelData' = levelData =>
             IF cats' = cats THEN TRUE
             ELSE \A j \in 1..Len(cats') :
                     LET i == IndexOf(cats'[j].id)
                     IN  i # 0 /\ TimerStep(cats[i], cats'[j])]_vars

\* A board has just been flipped or shuffled: a bomb on it, turned round, has
\* ticked before and keeps its time, and an exited bomb has more time left.
BombTimerRangeWitness ==
    /\ gameState = "PLAYING"
    /\ isAnimating
    /\ \E k \in Active :
          /\ cats[k].type = "BOMB"
          /\ cats[k].timer < BOMB_TIME_SECONDS
          /\ cats[k].direction # Original(cats[k]).direction
          /\ \E j \in 1..Len(cats) :
                cats[j].isExited /\ cats[j].type = "BOMB" /\ cats[j].timer > cats[k].timer

\* C31: the level is a positive integer in every state and never decreases; it
\* changes only by +1, in a step from WON (Next Level) that asks the generator
\* for that level. Restart, Try Again, pause and quit leave it unchanged.
LevelCounter ==
    [][/\ level \in Nat /\ level > 0
       /\ level' \in Nat /\ level' > 0
       /\ level' >= level
       /\ level' # level =>
             /\ gameState = "WON"
             /\ level' = level + 1
             /\ levelData'.level = level']_vars

\* A level after the stored one is in play: Next Level has been taken.
LevelCounterWitness ==
    /\ gameState = "PLAYING"
    /\ Len(cats) > 0
    /\ levelData.level = level
    /\ level \notin StartLevels

=============================================================================
